---- MODULE Spec2Model ----
(***************************************************************************)
(* Streaming response decoder of the openai-go client (http.go):           *)
(* streamWithCtx (chat flavor, with the incremental tool-call assembler)   *)
(* and streamResponsesWithCtx (generic event flavor).                      *)
(*                                                                         *)
(* A line of the body is a sequence of byte groups (tokens): the data      *)
(* prefix, the event marker, the terminator token, a JSON document or any  *)
(* other text.  Prefix, suffix and equality tests are computed on that     *)
(* sequence, json.Unmarshal is the table Doc.                              *)
(***************************************************************************)
EXTENDS Integers, Sequences, FiniteSets, TLC

VARIABLES flavor, alphabet, ctxDone, pc, consumed, eos, fn, toolIndex, toolCalls,
          calls, queued, stop, closed, call, consumer, ch, other

vars == <<flavor, alphabet, ctxDone, pc, consumed, eos, fn, toolIndex, toolCalls,
          calls, queued, stop, closed, call, consumer, ch, other>>

(* ------------------------------ bounds --------------------------------- *)
\* lines read per session under Spec
MaxLines == 3
\* lines read per session under SpecAsm (tool-call fragments only)
MaxFrags == 4
\* lines read per session under SpecTest (the tests' channel consumer)
MaxTestLines == 3
\* lines read per session under SpecMerge (fragments of names and arguments)
MaxMergeLines == 3
\* lines read by each of the two sessions under SpecTwo
MaxTwoLines == 2

(* ------------------------- program constants --------------------------- *)
\* capacity of the tests' channel: make(chan completion, 1)
ChanCap == 1

(* ------------------------- bytes and prefixes -------------------------- *)
StreamData == <<"data: ">>
StreamDone == <<"[DONE]">>
EventMarker == <<"event:">>

HasPrefix(b, p) == Len(b) >= Len(p) /\ SubSeq(b, 1, Len(p)) = p
HasSuffix(b, s) == Len(b) >= Len(s) /\ SubSeq(b, Len(b) - Len(s) + 1, Len(b)) = s
TrimPrefix(b, p) == IF HasPrefix(b, p) THEN SubSeq(b, Len(p) + 1, Len(b)) ELSE b

(* --------------------------- decoded values ---------------------------- *)
NilIndex == -1

\* entry.Choices[0].Delta.ToolCalls: n is its length, the other fields are
\* those of its first element
NoFrag == [n |-> 0, Index |-> NilIndex, ID |-> "", Name |-> "", Arguments |-> <<>>]
Frag(i, id, name, args) == [n |-> 1, Index |-> i, ID |-> id, Name |-> name, Arguments |-> args]

\* ChatCompletion{} / ResponseStreamEvent{}: Choices is len(entry.Choices),
\* Content, Delta, FinishReason and ToolCalls (Message.ToolCalls) are the
\* fields of the first choice
ZeroEntry == [Type |-> "nil", Choices |-> 0, Content |-> "", Delta |-> NoFrag,
              FinishReason |-> "", ToolCalls |-> <<>>]

Chunk(delta, finish) == [ZeroEntry EXCEPT !.Choices = 1, !.Delta = delta, !.FinishReason = finish]
Event(type) == [ZeroEntry EXCEPT !.Type = type]

\* the JSON documents of the model and what encoding/json decodes them to:
\* err "nil", "syntax" (input rejected before anything is stored) or "type"
\* (UnmarshalTypeError: the fields decoded so far stay in the target)
DocNames == {"{ping}", "{ping+tc}", "{hi}", "{}", "{f0}", "{x}", "{y}", "{y!}",
             "{g1}", "{z1}", "{h2}", "{w2}", "{f0+x}", "{tool_calls}", "{stop}", "{type!}",
             "{completed}", "{failed}", "{cancelled}", "{created}"}

Doc(d) ==
  CASE d = "{ping}"       -> [err |-> "nil", entry |-> Event("ping")]
    [] d = "{ping+tc}"    -> [err |-> "nil", entry |->
                               [Chunk(Frag(0, "a", "f", <<>>), "tool_calls") EXCEPT !.Type = "ping"]]
    [] d = "{hi}"         -> [err |-> "nil", entry |-> [Chunk(NoFrag, "") EXCEPT !.Content = "Hi"]]
    [] d = "{}"           -> [err |-> "nil", entry |-> ZeroEntry]
    [] d = "{f0}"         -> [err |-> "nil", entry |-> Chunk(Frag(0, "a", "f", <<>>), "")]
    [] d = "{x}"          -> [err |-> "nil", entry |-> Chunk(Frag(0, "", "", <<"x">>), "")]
    [] d = "{y}"          -> [err |-> "nil", entry |-> Chunk(Frag(NilIndex, "", "", <<"y">>), "")]
    [] d = "{y!}"         -> [err |-> "nil", entry |-> Chunk(Frag(0, "", "", <<"y">>), "tool_calls")]
    [] d = "{g1}"         -> [err |-> "nil", entry |-> Chunk(Frag(1, "b", "g", <<>>), "")]
    [] d = "{z1}"         -> [err |-> "nil", entry |-> Chunk(Frag(1, "", "", <<"z">>), "")]
    [] d = "{h2}"         -> [err |-> "nil", entry |-> Chunk(Frag(2, "c", "h", <<>>), "")]
    [] d = "{w2}"         -> [err |-> "nil", entry |-> Chunk(Frag(2, "", "", <<"w">>), "")]
    [] d = "{f0+x}"       -> [err |-> "nil", entry |-> Chunk(Frag(0, "", "f", <<"x">>), "")]
    [] d = "{tool_calls}" -> [err |-> "nil", entry |-> Chunk(NoFrag, "tool_calls")]
    [] d = "{stop}"       -> [err |-> "nil", entry |-> Chunk(NoFrag, "stop")]
    [] d = "{type!}"      -> [err |-> "type", entry |-> [Chunk(NoFrag, "") EXCEPT !.Content = "Hi"]]
    [] d = "{completed}"  -> [err |-> "nil", entry |-> Event("response.completed")]
    [] d = "{failed}"     -> [err |-> "nil", entry |-> Event("response.failed")]
    [] d = "{cancelled}"  -> [err |-> "nil", entry |-> Event("response.cancelled")]
    [] d = "{created}"    -> [err |-> "nil", entry |-> Event("response.created")]

\* json.Unmarshal(data, &entry) on a zero-valued entry
Unmarshal(data) ==
  IF Len(data) = 1 /\ data[1] \in DocNames
    THEN Doc(data[1])
    ELSE [err |-> "syntax", entry |-> ZeroEntry]

(* --------------------------- callback values --------------------------- *)
\* one invocation cb(response, done, err); line is the number of the scanned
\* line whose iteration made it (0: made after the loop)
Cb(entry, done, err, line) == [response |-> entry, done |-> done, err |-> err, line |-> line]

(* ---------------------- tool-call assembler (chat) --------------------- *)
\* ToolCall{Type: "function"}: Index is a pointer, "nil" or "&toolIndex"
NewToolCall(index) == [Type |-> "function", Index |-> index, ID |-> "", Name |-> "", Arguments |-> <<>>]

\* what a reader of the call sees: the pointer Index dereferenced
Deref(tc, ti) == [tc EXCEPT !.Index = IF tc.Index = "nil" THEN NilIndex ELSE ti]
DerefAll(tcs, ti) == [k \in 1..Len(tcs) |-> Deref(tcs[k], ti)]

\* the fragment's index differs from the cursor
IndexChanged(toolCall, ti) == toolCall.Index # NilIndex /\ toolCall.Index # ti

\* the cursor after a change of index
AdvanceCursor(toolCall, ti) == ti + 1

\* faulty variant of MergeFragment: the arguments are appended also when the
\* fragment carries a name
MergeFragmentBoth(f, toolCall) ==
  LET f1 == IF toolCall.ID # "" THEN [f EXCEPT !.ID = toolCall.ID] ELSE f
      f2 == IF toolCall.Name # "" THEN [f1 EXCEPT !.Name = toolCall.Name] ELSE f1
  IN  [f2 EXCEPT !.Arguments = f2.Arguments \o toolCall.Arguments]

\* the in-progress call after the fragment's id, name and arguments
MergeFragment(f, toolCall) ==
  LET f1 == IF toolCall.ID # "" THEN [f EXCEPT !.ID = toolCall.ID] ELSE f
  IN  IF toolCall.Name # ""
        THEN [f1 EXCEPT !.Name = toolCall.Name]
        ELSE IF toolCall.Arguments # <<>>
               THEN [f1 EXCEPT !.Arguments = f1.Arguments \o toolCall.Arguments]
               ELSE f1

\* the assembler state a = [fn, toolIndex, toolCalls] after a decoded chunk
AssemblerUpdate(a, entry) ==
  IF entry.Choices > 0 /\ entry.Delta.n > 0
    THEN LET toolCall == entry.Delta
             a1 == IF IndexChanged(toolCall, a.toolIndex)
                     THEN [fn |-> NewToolCall("&toolIndex"),
                           toolIndex |-> AdvanceCursor(toolCall, a.toolIndex),
                           toolCalls |-> Append(a.toolCalls, a.fn)]
                     ELSE a
         IN  [a1 EXCEPT !.fn = MergeFragment(a1.fn, toolCall)]
    ELSE a

\* faulty variant of Finalizes: any "stop" finalizes, whatever the identifier
FinalizesOnAnyStop(entry, f) ==
  entry.Choices > 0 /\ (entry.FinishReason = "tool_calls" \/ entry.FinishReason = "stop")

\* the finish-reason test
Finalizes(entry, f) ==
  entry.Choices > 0 /\ (entry.FinishReason = "tool_calls" \/
                        (entry.FinishReason = "stop" /\ f.ID # ""))

(* ------------------------- one loop iteration -------------------------- *)
\* results: the callbacks to make in order, whether the session returns,
\* and the assembler state
Continue(a) == [cbs |-> <<>>, stop |-> FALSE, asm |-> a]
Terminal(entry, err, n, a) == [cbs |-> <<Cb(entry, TRUE, err, n)>>, stop |-> TRUE, asm |-> a]

\* faulty variant of OnCancel: the assembler state is flushed into the payload
OnCancelFlush(n, a) ==
  Terminal([ZeroEntry EXCEPT !.Choices = 1,
                             !.ToolCalls = DerefAll(Append(a.toolCalls, a.fn), a.toolIndex)],
           "ctx", n, a)

\* the select on ctx.Done() at the top of both loops
OnCancel(n, a) == Terminal(ZeroEntry, "ctx", n, a)

\* faulty variant of IsTerminatorChat: the line is compared with a wrong token
IsTerminatorChatWrongToken(b) == HasSuffix(b, <<"DONE">>)

\* chat flavor: is the data line b the sender's terminator
IsTerminatorChat(b) == HasSuffix(b, StreamDone)

\* faulty variant of PlaceholderEntry: the placeholder choice is not added
PlaceholderMissing == ZeroEntry

\* the entry delivered on the terminator line
PlaceholderEntry == [ZeroEntry EXCEPT !.Choices = 1]

\* faulty variant of OnDecodeErrorChat: the return after the callback is missing
OnDecodeErrorChatNoReturn(u, n, a) ==
  [cbs |-> <<Cb(u.entry, TRUE, u.err, n)>>, stop |-> FALSE, asm |-> a]

\* chat flavor: result of a failed json.Unmarshal
OnDecodeErrorChat(u, n, a) == Terminal(u.entry, u.err, n, a)

\* faulty variant of IsPing: only a chunk without choices counts as a heartbeat
IsPingBare(entry) == entry.Type # "nil" /\ entry.Type = "ping" /\ entry.Choices = 0

\* chat flavor: heartbeat test
IsPing(entry) == entry.Type # "nil" /\ entry.Type = "ping"

\* faulty variant of OnChunk: the finalizing chunk is delivered with done=true only
OnChunkFinalOnly(entry, n, a) ==
  LET a1 == AssemblerUpdate(a, entry)
  IN  IF Finalizes(entry, a1.fn)
        THEN LET tcs == Append(a1.toolCalls, a1.fn)
                 e == [entry EXCEPT !.ToolCalls = DerefAll(tcs, a1.toolIndex)]
             IN  [cbs |-> <<Cb(e, TRUE, "nil", n)>>,
                  stop |-> TRUE, asm |-> [a1 EXCEPT !.toolCalls = tcs]]
        ELSE [cbs |-> <<Cb(entry, FALSE, "nil", n)>>, stop |-> FALSE, asm |-> a1]

\* chat flavor: a decoded, non-heartbeat chunk
OnChunk(entry, n, a) ==
  LET a1 == AssemblerUpdate(a, entry)
  IN  IF Finalizes(entry, a1.fn)
        THEN LET tcs == Append(a1.toolCalls, a1.fn)
                 e == [entry EXCEPT !.ToolCalls = DerefAll(tcs, a1.toolIndex)]
             IN  [cbs |-> <<Cb(e, FALSE, "nil", n), Cb(e, TRUE, "nil", n)>>,
                  stop |-> TRUE, asm |-> [a1 EXCEPT !.toolCalls = tcs]]
        ELSE [cbs |-> <<Cb(entry, FALSE, "nil", n)>>, stop |-> FALSE, asm |-> a1]

\* chat flavor: a line with the data prefix
OnDataChat(b, n, a) ==
  IF IsTerminatorChat(b)
    THEN Terminal(PlaceholderEntry, "nil", n, a)
    ELSE LET u == Unmarshal(SubSeq(b, Len(StreamData) + 1, Len(b)))
         IN  IF u.err # "nil" THEN OnDecodeErrorChat(u, n, a)
             ELSE IF IsPing(u.entry) THEN Continue(a)
             ELSE OnChunk(u.entry, n, a)

\* faulty variant of ChatIteration: the terminator line is recognised before
\* the context is polled
ChatIterationDoneFirst(done, b, n, a) ==
  IF HasPrefix(b, StreamData) /\ IsTerminatorChat(b) THEN Terminal(PlaceholderEntry, "nil", n, a)
  ELSE IF done THEN OnCancel(n, a)
  ELSE IF Len(b) = 0 THEN Continue(a)
  ELSE IF HasPrefix(b, StreamData) THEN OnDataChat(b, n, a)
  ELSE Continue(a)

\* faulty variant of ChatIteration: the terminator token is looked for
\* before the data prefix
ChatIterationSuffixFirst(done, b, n, a) ==
  IF done THEN OnCancel(n, a)
  ELSE IF Len(b) = 0 THEN Continue(a)
  ELSE IF HasSuffix(b, StreamDone) THEN Terminal(PlaceholderEntry, "nil", n, a)
  ELSE IF HasPrefix(b, StreamData) THEN OnDataChat(b, n, a)
  ELSE Continue(a)

\* body of the for loop of streamWithCtx for the n-th line b
ChatIteration(done, b, n, a) ==
  IF done THEN OnCancel(n, a)
  ELSE IF Len(b) = 0 THEN Continue(a)
  ELSE IF HasPrefix(b, StreamData) THEN OnDataChat(b, n, a)
  ELSE Continue(a)

\* faulty variant of IsTerminalType: "response.cancelled" is not terminal
IsTerminalTypeNoCancelled(type) ==
  type = "response.completed" \/ type = "response.failed"

\* generic flavor: the terminal event types
IsTerminalType(type) ==
  type = "response.completed" \/ type = "response.failed" \/ type = "response.cancelled"

\* generic flavor: a line with the data prefix
OnDataResponses(b, n, a) ==
  LET dataBytes == TrimPrefix(b, StreamData)
  IN  IF dataBytes = StreamDone THEN Terminal(ZeroEntry, "nil", n, a)
      ELSE LET u == Unmarshal(dataBytes)
           IN  IF u.err # "nil" THEN Terminal(ZeroEntry, u.err, n, a)
               ELSE LET done == IsTerminalType(u.entry.Type)
                    IN  [cbs |-> <<Cb(u.entry, done, "nil", n)>>, stop |-> done, asm |-> a]

\* body of the for loop of streamResponsesWithCtx for the n-th line b
ResponsesIteration(done, b, n, a) ==
  IF done THEN OnCancel(n, a)
  ELSE IF Len(b) = 0 THEN Continue(a)
  ELSE IF HasPrefix(b, EventMarker) THEN Continue(a)
  ELSE IF HasPrefix(b, StreamData) THEN OnDataResponses(b, n, a)
  ELSE Continue(a)

Iteration(fl, done, b, n, a) ==
  IF fl = "chat" THEN ChatIteration(done, b, n, a) ELSE ResponsesIteration(done, b, n, a)

(* ------------------------ the bodies considered ------------------------ *)
Data(d) == StreamData \o <<d>>

CommonLines == { <<>>, <<"event:", "#">>, <<"#">>, <<"#", "[DONE]">>,
                 Data("[DONE]"), Data("{hi}") \o StreamDone, StreamData,
                 Data("{bad"), Data("{type!}") }

ChatLines == CommonLines \cup
  { Data(d) : d \in {"{ping}", "{ping+tc}", "{hi}", "{}", "{f0}", "{x}", "{tool_calls}", "{stop}"} }

ResponsesLines == CommonLines \cup
  { Data(d) : d \in {"{completed}", "{failed}", "{cancelled}", "{created}"} }

FragLines == { Data(d) : d \in {"{f0}", "{x}", "{y}", "{y!}", "{g1}", "{z1}", "{h2}", "{w2}",
                                "{f0+x}", "{tool_calls}", "{stop}", "[DONE]"} }

TestLines == { <<>>, Data("[DONE]"), Data("{hi}"), Data("{f0}"), Data("{tool_calls}"),
               Data("{completed}"), Data("{bad") }

MergeLines == { Data(d) : d \in {"{f0}", "{x}", "{f0+x}", "{g1}", "{z1}", "{stop}"} }

TwoLines == { Data(d) : d \in {"{f0}", "{g1}", "{tool_calls}"} }

Lines(al, fl) ==
  IF al = "frag" THEN FragLines
  ELSE IF al = "two" THEN TwoLines
  ELSE IF al = "test" THEN TestLines
  ELSE IF al = "merge" THEN MergeLines
  ELSE IF fl = "chat" THEN ChatLines ELSE ResponsesLines

MaxRead(al) ==
  IF al = "frag" THEN MaxFrags
  ELSE IF al = "two" THEN MaxTwoLines
  ELSE IF al = "test" THEN MaxTestLines
  ELSE IF al = "merge" THEN MaxMergeLines
  ELSE MaxLines

(* ------------------------------- state --------------------------------- *)
\* flavor    which session function runs: "chat" or "responses"
\* alphabet  which set of lines the body is drawn from
\* ctxDone   the context's Done channel is closed
\* pc        "idle": no session task yet; "scan": in scanner.Scan(); "cb":
\*           inside a callback invocation; "closed": the session function
\*           has returned
\* consumed  the lines scanned so far, each with the result of the poll of
\*           ctx.Done() of its iteration
\* eos       how scanner.Scan() returned false, if it did: seen, the value
\*           of scanner.Err(), and whether the context was done by then
\* fn, toolIndex, toolCalls  the assembler's locals
\* calls     the callback invocations made so far, in order
\* queued    the invocations the current iteration still has to make
\* stop      the session returns once the current callbacks have returned
\* closed    number of res.Body.Close() calls
\* call      the initiating call (postCBWithContext or
\*           postCBResponsesWithContext): "pending" in httpClient.Do,
\*           "spawned" after the go statement, "returned" with (nil, nil),
\*           "failed" returned with an error, "panicked"
\* consumer  what the callback does: "func" returns at once, "chan" is the
\*           tests' callback, which sends on a channel of capacity ChanCap
\* ch        number of values buffered in that channel
\* other     a second chat session, on another body and with a context and
\*           a callback of its own: a record of its pc, ctxDone, consumed,
\*           eos, fn, toolIndex, toolCalls, calls, queued, stop and closed
\*           (pc "none": there is no second session)
Asm == [fn |-> fn, toolIndex |-> toolIndex, toolCalls |-> toolCalls]

InitCommon ==
  /\ flavor \in {"chat", "responses"}
  /\ ctxDone = FALSE
  /\ pc = "idle"
  /\ call = "pending"
  /\ ch = 0
  /\ consumed = <<>>
  /\ eos = [seen |-> FALSE, err |-> "nil", ctxDone |-> FALSE]
  /\ fn = NewToolCall("nil")
  /\ toolIndex = 0
  /\ toolCalls = <<>>
  /\ calls = <<>>
  /\ queued = <<>>
  /\ stop = FALSE
  /\ closed = 0

\* the locals of a session function before its loop, as a record
SessionStart ==
  [pc |-> "scan", ctxDone |-> FALSE, consumed |-> <<>>,
   eos |-> [seen |-> FALSE, err |-> "nil", ctxDone |-> FALSE],
   fn |-> NewToolCall("nil"), toolIndex |-> 0, toolCalls |-> <<>>,
   calls |-> <<>>, queued |-> <<>>, stop |-> FALSE, closed |-> 0]

NoSession == [SessionStart EXCEPT !.pc = "none"]

Init == InitCommon /\ alphabet = "all" /\ consumer = "func" /\ other = NoSession

InitAsm ==
  InitCommon /\ alphabet = "frag" /\ flavor = "chat" /\ consumer = "func" /\ other = NoSession

InitTest == InitCommon /\ alphabet = "test" /\ consumer = "chan" /\ other = NoSession

InitMerge ==
  InitCommon /\ alphabet = "merge" /\ flavor = "chat" /\ consumer = "func" /\ other = NoSession

InitTwo ==
  InitCommon /\ alphabet = "two" /\ flavor = "chat" /\ consumer = "func" /\ other = SessionStart

\* the caller cancels the context
Cancel ==
  /\ ~ctxDone
  /\ ctxDone' = TRUE
  /\ UNCHANGED <<other, flavor, alphabet, pc, consumed, eos, fn, toolIndex, toolCalls, calls, queued, stop, closed,
                 call, consumer, ch>>

\* faulty variant of CloseOnReturn: an explicit Close before the return, on
\* top of the deferred one
CloseTwice(c, st) == IF st THEN c + 2 ELSE c

\* faulty variant of CloseOnReturn: the deferred Close is missing
CloseLeak(c, st) == c

\* defer res.Body.Close(): c Close calls so far, st: the function returns
CloseOnReturn(c, st) == IF st THEN c + 1 ELSE c

\* make the invocations cbs of one iteration: the first is entered now, the
\* rest wait for it to return; with none, the loop goes on or the function
\* returns (and the deferred Close runs)
Invoke(cbs, st) ==
  IF cbs # <<>>
    THEN /\ calls' = Append(calls, Head(cbs))
         /\ queued' = Tail(cbs)
         /\ stop' = st
         /\ pc' = "cb"
         /\ closed' = closed
    ELSE /\ calls' = calls
         /\ queued' = <<>>
         /\ stop' = FALSE
         /\ pc' = IF st THEN "closed" ELSE "scan"
         /\ closed' = CloseOnReturn(closed, st)

\* scanner.Scan() returns true with line b, and the loop body runs
ScanLine ==
  /\ pc = "scan"
  /\ Len(consumed) < MaxRead(alphabet)
  /\ \E b \in Lines(alphabet, flavor) :
       LET n == Len(consumed) + 1
           r == Iteration(flavor, ctxDone, b, n, Asm)
       IN  /\ consumed' = Append(consumed, [b |-> b, ctxDone |-> ctxDone])
           /\ fn' = r.asm.fn
           /\ toolIndex' = r.asm.toolIndex
           /\ toolCalls' = r.asm.toolCalls
           /\ Invoke(r.cbs, r.stop)
  /\ UNCHANGED <<other, flavor, alphabet, ctxDone, eos, call, consumer, ch>>

\* faulty variant of AfterLoop: the check of scanner.Err() is missing
AfterLoopSilent(err) == <<>>

\* what follows the loop, given scanner.Err()
AfterLoop(err) == IF err # "nil" THEN <<Cb(ZeroEntry, TRUE, err, 0)>> ELSE <<>>

\* scanner.Scan() returns false at end of stream: scanner.Err() is nil
ScanEOF ==
  /\ pc = "scan"
  /\ eos' = [seen |-> TRUE, err |-> "nil", ctxDone |-> ctxDone]
  /\ Invoke(AfterLoop("nil"), TRUE)
  /\ UNCHANGED <<other, flavor, alphabet, ctxDone, consumed, fn, toolIndex, toolCalls, call, consumer, ch>>

\* the errors a read of the body can fail with: an I/O error, and, once the
\* context of the request is cancelled, the context's error (the request is
\* made with http.NewRequestWithContext(ctx, ...), so the transport fails
\* reads of its body with ctx.Err())
ReadErrors(done) == IF done THEN {"read", "ctx"} ELSE {"read"}

\* scanner.Scan() returns false on a read error
ScanError ==
  /\ pc = "scan"
  /\ \E e \in ReadErrors(ctxDone) :
       /\ eos' = [seen |-> TRUE, err |-> e, ctxDone |-> ctxDone]
       /\ Invoke(AfterLoop(e), TRUE)
  /\ UNCHANGED <<other, flavor, alphabet, ctxDone, consumed, fn, toolIndex, toolCalls, call, consumer, ch>>

\* the running callback returns (the tests' callback once its send on the
\* channel has gone through): the next queued invocation is entered, or the
\* loop goes on, or the function returns and the deferred Close runs
CallbackReturn ==
  /\ pc = "cb"
  /\ IF consumer = "chan"
       THEN ch < ChanCap /\ ch' = ch + 1
       ELSE ch' = ch
  /\ IF queued # <<>>
       THEN /\ calls' = Append(calls, Head(queued))
            /\ queued' = Tail(queued)
            /\ UNCHANGED <<pc, stop, closed>>
       ELSE /\ pc' = IF stop THEN "closed" ELSE "scan"
            /\ closed' = CloseOnReturn(closed, stop)
            /\ stop' = FALSE
            /\ UNCHANGED <<calls, queued>>
  /\ UNCHANGED <<other, flavor, alphabet, ctxDone, consumed, eos, fn, toolIndex, toolCalls, call, consumer>>

(* ------------------------- the initiating call ------------------------- *)
\* the error bodies of a non-2xx response: whether reading the body
\* succeeds, its JSON shape (an object such as the single-object wrapper, an
\* array such as the array-of-objects wrapper, or text that is no JSON) and
\* the length of the array
ErrBody(read, shape, len) == [read |-> read, shape |-> shape, len |-> len]

ErrBodies == { ErrBody(FALSE, "object", 0), ErrBody(TRUE, "object", 0),
               ErrBody(TRUE, "array", 1), ErrBody(TRUE, "array", 0),
               ErrBody(TRUE, "garbage", 0) }

\* json.Unmarshal / Decode of the body into the struct with the Error field,
\* and into the slice of structs: do they return a nil error
DecodesAsObject(body) == body.shape = "object"
DecodesAsArray(body) == body.shape = "array"

\* how postCBWithContext ends on a non-2xx status: "failed" is a return with
\* a non-nil error, "panicked" the index out of range of geminiErr[0]
PostErrorChat(body) ==
  IF ~body.read THEN "failed"
  ELSE IF DecodesAsObject(body) THEN "failed"
  ELSE IF ~DecodesAsArray(body) THEN "failed"
  ELSE IF body.len = 0 THEN "panicked"
  ELSE "failed"

\* how postCBResponsesWithContext ends on a non-2xx status
PostErrorResponses(body) ==
  IF ~(body.read /\ DecodesAsObject(body))
    THEN "failed"    \* "failed to decode error body"
    ELSE "failed"    \* errbody.Error.err()

PostError(fl, body) ==
  IF fl = "chat" THEN PostErrorChat(body) ELSE PostErrorResponses(body)

\* faulty variant of RunsAsTask: the session function is called inline, the
\* initiating call returns when it has returned
RunsInline == FALSE

\* the session runs as a task of its own (the go statement)
RunsAsTask == TRUE

\* c.httpClient.Do(req) returns an error: the call returns it
PostTransportError ==
  /\ call = "pending"
  /\ call' = "failed"
  /\ UNCHANGED <<other, flavor, alphabet, ctxDone, pc, consumed, eos, fn, toolIndex, toolCalls,
                 calls, queued, stop, closed, consumer, ch>>

\* a non-2xx status: the error body is read and decoded, the deferred Close
\* runs, no session is started
PostNon2xx ==
  /\ call = "pending"
  /\ \E body \in ErrBodies : call' = PostError(flavor, body)
  /\ closed' = closed + 1
  /\ UNCHANGED <<other, flavor, alphabet, ctxDone, pc, consumed, eos, fn, toolIndex, toolCalls,
                 calls, queued, stop, consumer, ch>>

\* a success status: go streamWithCtx(ctx, resp, cb)
PostOK ==
  /\ call = "pending"
  /\ call' = "spawned"
  /\ pc' = "scan"
  /\ UNCHANGED <<other, flavor, alphabet, ctxDone, consumed, eos, fn, toolIndex, toolCalls,
                 calls, queued, stop, closed, consumer, ch>>

\* return nil, nil
PostReturn ==
  /\ call = "spawned"
  /\ RunsAsTask \/ pc = "closed"
  /\ call' = "returned"
  /\ UNCHANGED <<other, flavor, alphabet, ctxDone, pc, consumed, eos, fn, toolIndex, toolCalls,
                 calls, queued, stop, closed, consumer, ch>>

\* the tests' consumer, for comp := range ch, entered once the initiating
\* call has returned, receives a value
Drain ==
  /\ consumer = "chan"
  /\ call = "returned"
  /\ ch > 0
  /\ ch' = ch - 1
  /\ UNCHANGED <<other, flavor, alphabet, ctxDone, pc, consumed, eos, fn, toolIndex, toolCalls,
                 calls, queued, stop, closed, call, consumer>>

Next ==
  \/ PostTransportError \/ PostNon2xx \/ PostOK \/ PostReturn
  \/ Cancel \/ ScanLine \/ ScanEOF \/ ScanError \/ CallbackReturn

NextTest == Next \/ Drain

Spec == Init /\ [][Next]_vars

SpecAsm == InitAsm /\ [][Next]_vars

SpecMerge == InitMerge /\ [][Next]_vars

(* -------------------------- a second session --------------------------- *)
\* faulty variant of OtherAsm: the cursor is one variable for both sessions
OtherAsmSharedCursor(o) == [fn |-> o.fn, toolIndex |-> toolIndex, toolCalls |-> o.toolCalls]

\* the assembler state the second session works on: its own locals
OtherAsm(o) == [fn |-> o.fn, toolIndex |-> o.toolIndex, toolCalls |-> o.toolCalls]

\* Invoke for the second session
OtherInvoke(o, cbs, st) ==
  IF cbs # <<>>
    THEN [o EXCEPT !.calls = Append(o.calls, Head(cbs)), !.queued = Tail(cbs),
                   !.stop = st, !.pc = "cb"]
    ELSE [o EXCEPT !.queued = <<>>, !.stop = FALSE,
                   !.pc = IF st THEN "closed" ELSE "scan",
                   !.closed = CloseOnReturn(o.closed, st)]

\* the caller of the second session cancels its context
OtherCancel ==
  /\ other.pc # "none"
  /\ ~other.ctxDone
  /\ other' = [other EXCEPT !.ctxDone = TRUE]
  /\ UNCHANGED <<flavor, alphabet, ctxDone, pc, consumed, eos, fn, toolIndex, toolCalls,
                 calls, queued, stop, closed, call, consumer, ch>>

\* the second session scans a line and runs its loop body
OtherScanLine ==
  /\ other.pc = "scan"
  /\ Len(other.consumed) < MaxRead(alphabet)
  /\ \E b \in Lines(alphabet, "chat") :
       LET n == Len(other.consumed) + 1
           r == ChatIteration(other.ctxDone, b, n, OtherAsm(other))
           o == [other EXCEPT !.consumed = Append(other.consumed, [b |-> b, ctxDone |-> other.ctxDone]),
                              !.fn = r.asm.fn, !.toolIndex = r.asm.toolIndex,
                              !.toolCalls = r.asm.toolCalls]
       IN  other' = OtherInvoke(o, r.cbs, r.stop)
  /\ UNCHANGED <<flavor, alphabet, ctxDone, pc, consumed, eos, fn, toolIndex, toolCalls,
                 calls, queued, stop, closed, call, consumer, ch>>

\* the second session's scanner.Scan() returns false, with or without error
OtherScanEnd ==
  /\ other.pc = "scan"
  /\ \E e \in {"nil"} \cup ReadErrors(other.ctxDone) :
       other' = OtherInvoke([other EXCEPT !.eos = [seen |-> TRUE, err |-> e, ctxDone |-> other.ctxDone]],
                            AfterLoop(e), TRUE)
  /\ UNCHANGED <<flavor, alphabet, ctxDone, pc, consumed, eos, fn, toolIndex, toolCalls,
                 calls, queued, stop, closed, call, consumer, ch>>

\* the second session's running callback returns
OtherCallbackReturn ==
  /\ other.pc = "cb"
  /\ other' = IF other.queued # <<>>
                THEN [other EXCEPT !.calls = Append(other.calls, Head(other.queued)),
                                   !.queued = Tail(other.queued)]
                ELSE [other EXCEPT !.pc = IF other.stop THEN "closed" ELSE "scan",
                                   !.closed = CloseOnReturn(other.closed, other.stop),
                                   !.stop = FALSE]
  /\ UNCHANGED <<flavor, alphabet, ctxDone, pc, consumed, eos, fn, toolIndex, toolCalls,
                 calls, queued, stop, closed, call, consumer, ch>>

NextTwo == Next \/ OtherCancel \/ OtherScanLine \/ OtherScanEnd \/ OtherCallbackReturn

SpecTwo == InitTwo /\ [][NextTwo]_vars

\* the goroutines of the initiating call, of the consumer and of the
\* callback's send are scheduled whenever they can run
SpecTest ==
  /\ InitTest /\ [][NextTest]_vars
  /\ WF_vars(PostReturn) /\ WF_vars(Drain) /\ WF_vars(CallbackReturn)

(* ======================== properties of sessions ======================= *)
\* the invocations made by the iteration of line n (0: after the loop)
CallsOf(n) == SelectSeq(calls, LAMBDA c : c.line = n)
TerminalIdx == {i \in 1..Len(calls) : calls[i].done}
\* the session function has returned
Returned == pc = "closed"
\* line n was scanned while no cancellation was pending
Live(n) == n \in 1..Len(consumed) /\ ~consumed[n].ctxDone
\* the iteration of line n has made all its invocations
IterationOver(n) == n < Len(consumed) \/ (n = Len(consumed) /\ queued = <<>>)
\* the iteration of line n ended the session
Ends(n) == n = Len(consumed) /\ ~eos.seen /\ (Returned \/ (pc = "cb" /\ stop))

\* C1: in both flavors the callback is invoked with done=true at most once,
\* and no invocation of the stream follows the done=true invocation: the
\* terminal invocation is the last one made, nothing is queued behind it and
\* the session is on its way out.
C1_AtMostOneTerminalAndLast ==
  /\ Cardinality(TerminalIdx) <= 1
  /\ \A i \in TerminalIdx :
       /\ i = Len(calls)
       /\ queued = <<>>
       /\ Returned \/ (pc = "cb" /\ stop)

\* a session that went on after non-terminal deliveries and then made its
\* terminal invocation and returned
C1_Witness ==
  /\ Returned
  /\ Len(calls) >= 3
  /\ calls[Len(calls)].done
  /\ ~calls[1].done

\* C2: every session that has run to its end has invoked the callback with
\* done=true exactly once, whatever way the body ended.
C2_ExactlyOneTerminal == Returned => Cardinality(TerminalIdx) = 1

\* cancellation was signalled before the session read any line
CancelledBeforeFirstRead ==
  IF consumed # <<>> THEN consumed[1].ctxDone ELSE eos.seen /\ eos.ctxDone

\* C3: if cancellation is signalled before the session has read any line,
\* then for every body the session makes exactly one invocation, with an
\* empty payload, done=true and the cancellation error, and no other.
C3_CancelBeforeFirstLine ==
  (Returned /\ CancelledBeforeFirstRead) =>
     /\ Len(calls) = 1
     /\ calls[1].response = ZeroEntry
     /\ calls[1].done
     /\ calls[1].err = "ctx"

\* C4: when a chat session scans a line while a cancellation signalled after
\* earlier lines is pending, that line is neither decoded (the assembler keeps
\* its state) nor delivered, the iteration makes exactly one invocation, which
\* is terminal, carries the cancellation error and an empty payload, it is the
\* only terminal invocation of the stream, and the session stops.
C4_CancelStep ==
  (/\ flavor = "chat"
   /\ pc = "scan"
   /\ ctxDone
   /\ consumed # <<>>
   /\ consumed' # consumed)
  => /\ calls' = Append(calls, Cb(ZeroEntry, TRUE, "ctx", Len(consumed')))
     /\ TerminalIdx = {}
     /\ queued' = <<>>
     /\ pc' = "cb" /\ stop'
     /\ UNCHANGED <<fn, toolIndex, toolCalls>>

C4_CancelAfterLines ==
  /\ [][C4_CancelStep]_vars
  /\ [](\A n \in 2..Len(consumed) :
          (flavor = "chat" /\ consumed[n].ctxDone) =>
             /\ Ends(n)
             /\ CallsOf(n) = <<Cb(ZeroEntry, TRUE, "ctx", n)>>
             /\ Cardinality(TerminalIdx) = 1)

\* a chat session cancelled while a tool call was in progress, after it
\* delivered the cancellation error and returned
C4_Witness ==
  /\ flavor = "chat"
  /\ Returned
  /\ Len(consumed) >= 2
  /\ ~consumed[1].ctxDone
  /\ consumed[Len(consumed)].ctxDone
  /\ fn.Name # ""
  /\ calls[Len(calls)].err = "ctx"

\* the bytes after the data prefix of line n, and what they decode to
Payload(n) == TrimPrefix(consumed[n].b, StreamData)
IsDataLine(n) == HasPrefix(consumed[n].b, StreamData)
Decoded(n) == Unmarshal(Payload(n))
\* the iteration of line n made the terminator's invocation
TreatedAsTerminator(n) ==
  CallsOf(n) = <<Cb(IF flavor = "chat" THEN PlaceholderEntry ELSE ZeroEntry, TRUE, "nil", n)>>

\* C5: in the chat flavor a data line is treated as the terminator only when
\* the bytes after the data prefix are exactly [DONE]; a payload that merely
\* ends with [DONE] goes to JSON decoding (and ends in its decode error).
C5_TerminatorIsEquality ==
  \A n \in 1..Len(consumed) :
    (flavor = "chat" /\ Live(n) /\ IsDataLine(n) /\ IterationOver(n)) =>
       /\ TreatedAsTerminator(n) <=> Payload(n) = StreamDone
       /\ (Payload(n) # StreamDone /\ HasSuffix(Payload(n), StreamDone)) =>
             CallsOf(n) = <<Cb(ZeroEntry, TRUE, Decoded(n).err, n)>>

\* C6: in both flavors, with no cancellation pending, a data line whose
\* payload is exactly [DONE] makes one invocation with done=true and a nil
\* error, whose payload shows no decoding (the zero value, with the
\* placeholder choice in the chat flavor), and ends the session, whatever was
\* processed before and whatever the assembler holds.
C6_TerminatorLine ==
  \A n \in 1..Len(consumed) :
    (Live(n) /\ IsDataLine(n) /\ Payload(n) = StreamDone) =>
       /\ TreatedAsTerminator(n)
       /\ Ends(n)

\* a chat session that met the terminator with a tool call in progress
C6_Witness ==
  /\ flavor = "chat"
  /\ Returned
  /\ Len(consumed) = 3
  /\ Live(3) /\ consumed[3].b = Data("[DONE]")
  /\ fn.Name # "" /\ fn.Arguments # <<>>
  /\ calls[Len(calls)].done /\ calls[Len(calls)].err = "nil"

\* line b decodes to a chunk whose top-level type is "ping"
IsPingLine(b) ==
  /\ HasPrefix(b, StreamData)
  /\ Unmarshal(TrimPrefix(b, StreamData)).err = "nil"
  /\ Unmarshal(TrimPrefix(b, StreamData)).entry.Type = "ping"

\* C7: in the chat flavor a data line that decodes to a chunk of type "ping"
\* makes no invocation and leaves the in-progress call, the cursor and the
\* finalized list as they were, also when the chunk carries choices, a
\* tool-call fragment or a finish-reason; the session goes on to the next line.
C7_PingStep ==
  (/\ flavor = "chat"
   /\ pc = "scan"
   /\ ~ctxDone
   /\ consumed' # consumed
   /\ IsPingLine(consumed'[Len(consumed')].b))
  => /\ calls' = calls
     /\ queued' = <<>>
     /\ pc' = "scan"
     /\ closed' = closed
     /\ UNCHANGED <<fn, toolIndex, toolCalls>>

C7_PingSkipped ==
  /\ [][C7_PingStep]_vars
  /\ [](\A n \in 1..Len(consumed) :
          (flavor = "chat" /\ Live(n) /\ IsPingLine(consumed[n].b)) =>
             CallsOf(n) = <<>> /\ ~Ends(n))

\* a chat session that skipped a heartbeat carrying a fragment and a
\* finish-reason, and then delivered the next line
C7_Witness ==
  /\ flavor = "chat"
  /\ Len(consumed) >= 2
  /\ Live(1) /\ consumed[1].b = Data("{ping+tc}")
  /\ Live(2) /\ consumed[2].b = Data("{hi}")
  /\ fn = NewToolCall("nil") /\ toolCalls = <<>>
  /\ Len(calls) = 1 /\ calls[1].line = 2

\* C8: in both flavors a data line whose payload fails JSON decoding makes
\* exactly one invocation, terminal, with an empty payload and the decode
\* error, and ends the session (payloads that end with the terminator token
\* are left to C5 and C6).
C8_DecodeFailure ==
  \A n \in 1..Len(consumed) :
    (/\ Live(n) /\ IsDataLine(n) /\ IterationOver(n)
     /\ ~HasSuffix(Payload(n), StreamDone)
     /\ Decoded(n).err # "nil") =>
       /\ CallsOf(n) = <<Cb(ZeroEntry, TRUE, Decoded(n).err, n)>>
       /\ Ends(n)

(* ===================== properties of the assembler ===================== *)
\* the tool-call fragment line b hands to the assembler (NoFrag when it
\* hands none): b is a data line that is not the chat terminator and decodes
\* to a chunk that is no heartbeat and has a choice with a fragment
LineFrag(b) ==
  LET u == Unmarshal(TrimPrefix(b, StreamData))
  IN  IF /\ HasPrefix(b, StreamData) /\ ~HasSuffix(b, StreamDone)
         /\ u.err = "nil" /\ u.entry.Type # "ping" /\ u.entry.Choices > 0
        THEN u.entry.Delta
        ELSE NoFrag

\* the tool-call fragments of the first k lines, in arrival order
RECURSIVE FragsUpTo(_)
FragsUpTo(k) ==
  IF k = 0 THEN <<>>
  ELSE IF Live(k) /\ LineFrag(consumed[k].b).n > 0
         THEN Append(FragsUpTo(k - 1), LineFrag(consumed[k].b))
         ELSE FragsUpTo(k - 1)

\* the argument texts of fragments j..Len(fs), concatenated
RECURSIVE ConcatArgs(_, _)
ConcatArgs(fs, j) == IF j > Len(fs) THEN <<>> ELSE fs[j].Arguments \o ConcatArgs(fs, j + 1)

\* the explicit indices of the fragments, one per run of equal indices
RECURSIVE IndexRuns(_)
IndexRuns(fs) ==
  IF fs = <<>> THEN <<>>
  ELSE LET front == IndexRuns(SubSeq(fs, 1, Len(fs) - 1))
           i == fs[Len(fs)].Index
       IN  IF i = NilIndex \/ (front # <<>> /\ front[Len(front)] = i)
             THEN front
             ELSE Append(front, i)

\* the terminal invocations made by a finalization by finish-reason
FinalizedIdx == {i \in TerminalIdx : calls[i].err = "nil" /\ calls[i].response.ToolCalls # <<>>}

\* a name fragment followed by argument fragments, all with one explicit index
NameThenArguments(fs) ==
  /\ Len(fs) >= 2
  /\ fs[1].Index # NilIndex
  /\ \A j \in 1..Len(fs) : fs[j].Index = fs[1].Index
  /\ fs[1].Name # "" /\ fs[1].Arguments = <<>>
  /\ \A j \in 2..Len(fs) : fs[j].Name = "" /\ fs[j].Arguments # <<>>

\* C9: for a chat stream whose fragments all carry the same index, a name
\* fragment followed by argument fragments, the list delivered at
\* finalization holds a call with that name whose arguments are the argument
\* fragments concatenated in arrival order.
C9_ExactConcatenation ==
  \A i \in FinalizedIdx :
    LET fs == FragsUpTo(calls[i].line)
        list == calls[i].response.ToolCalls
    IN  NameThenArguments(fs) =>
          \E k \in 1..Len(list) :
            list[k].Name = fs[1].Name /\ list[k].Arguments = ConcatArgs(fs, 2)

\* C10 (step): a fragment with an explicit index i that differs from the
\* cursor appends the in-progress call to the finalized list, sets the cursor
\* to i and starts a fresh in-progress call with index i.
C10_IndexChangeStep ==
  (/\ flavor = "chat" /\ pc = "scan" /\ ~ctxDone /\ consumed' # consumed
   /\ LineFrag(consumed'[Len(consumed')].b).n > 0
   /\ LineFrag(consumed'[Len(consumed')].b).Index \notin {NilIndex, toolIndex})
  => /\ Len(toolCalls') > Len(toolCalls)
     /\ SubSeq(toolCalls', 1, Len(toolCalls) + 1) = Append(toolCalls, fn)
     /\ toolIndex' = LineFrag(consumed'[Len(consumed')].b).Index
     /\ fn'.Index = "&toolIndex"

\* C10: the step above, and in consequence the list delivered at finalization
\* holds exactly one call per run of equal indices the fragments visited, in
\* arrival order.
C10_OneCallPerIndex ==
  /\ [][C10_IndexChangeStep]_vars
  /\ [](\A i \in FinalizedIdx :
          LET runs == IndexRuns(FragsUpTo(calls[i].line))
              list == calls[i].response.ToolCalls
          IN  runs # <<>> =>
                /\ Len(list) = Len(runs)
                /\ \A k \in 1..Len(list) : list[k].Index = runs[k])

(* ------------------------------ C11 ------------------------------------ *)
\* the last line scanned by this step is a chat data line that is decoded to
\* a chunk which is no heartbeat
ScansChunk ==
  /\ flavor = "chat"
  /\ pc = "scan"
  /\ Len(consumed') = Len(consumed) + 1
  /\ ~consumed'[Len(consumed')].ctxDone
  /\ LET b == consumed'[Len(consumed')].b
     IN  /\ HasPrefix(b, StreamData)
         /\ ~HasSuffix(b, StreamDone)
         /\ Unmarshal(TrimPrefix(b, StreamData)).err = "nil"
         /\ ~IsPingLine(b)

\* C11 (step): a decoded chunk that is no heartbeat finalizes exactly when its
\* first choice reports "tool_calls", or "stop" while the in-progress call
\* has an identifier.  Then the in-progress call is appended, the list is
\* attached to the chunk and the chunk is delivered twice, first done=false,
\* then done=true, and the session stops; otherwise the chunk is delivered
\* once with done=false and the session goes on.
C11_FinalizationStep ==
  ScansChunk =>
    LET n == Len(consumed')
        entry == Unmarshal(TrimPrefix(consumed'[n].b, StreamData)).entry
        finalizes == /\ entry.Choices > 0
                     /\ \/ entry.FinishReason = "tool_calls"
                        \/ entry.FinishReason = "stop" /\ fn'.ID # ""
    IN  IF finalizes
          THEN LET e == [entry EXCEPT !.ToolCalls = DerefAll(toolCalls', toolIndex')]
               IN  /\ toolCalls' # <<>>
                   /\ toolCalls'[Len(toolCalls')] = fn'
                   /\ calls' = Append(calls, Cb(e, FALSE, "nil", n))
                   /\ queued' = <<Cb(e, TRUE, "nil", n)>>
                   /\ pc' = "cb" /\ stop'
          ELSE /\ calls' = Append(calls, Cb(entry, FALSE, "nil", n))
               /\ queued' = <<>>
               /\ pc' = "cb" /\ ~stop'

\* C11: the step above, and in every state a line has at most two
\* invocations; a line with two has the same payload in both, done=false
\* then done=true, and is the last line of the session.
C11_Finalization ==
  /\ [][C11_FinalizationStep]_vars
  /\ [](\A n \in 1..Len(consumed) :
          /\ Len(CallsOf(n)) <= 2
          /\ Len(CallsOf(n)) = 2 =>
                /\ CallsOf(n)[1].response = CallsOf(n)[2].response
                /\ ~CallsOf(n)[1].done /\ CallsOf(n)[2].done
                /\ Ends(n))

\* a "stop" without an identifier was delivered once and the session went
\* on; a later "stop", with the call "a" in progress, finalized and the
\* session returned
C11_Witness ==
  /\ flavor = "chat"
  /\ Returned
  /\ Len(consumed) = 3
  /\ \A n \in 1..3 : ~consumed[n].ctxDone
  /\ consumed[1].b = Data("{stop}")
  /\ consumed[2].b = Data("{f0}")
  /\ consumed[3].b = Data("{stop}")
  /\ Len(CallsOf(1)) = 1
  /\ Len(CallsOf(3)) = 2

(* ------------------------------ C12 ------------------------------------ *)
\* line n was decoded by the chat session to a chunk that is no heartbeat
ChunkLine(n) ==
  /\ flavor = "chat"
  /\ Live(n)
  /\ IsDataLine(n)
  /\ ~HasSuffix(consumed[n].b, StreamDone)
  /\ Decoded(n).err = "nil"
  /\ ~IsPingLine(consumed[n].b)

\* the invocations of line n with done=false
NonTerminalOf(n) == SelectSeq(CallsOf(n), LAMBDA c : ~c.done)

\* the first k lines are content chunks and line k+1 is the terminator
ContentThenDone(k) ==
  /\ flavor = "chat"
  /\ Len(consumed) = k + 1
  /\ \A n \in 1..(k + 1) : Live(n)
  /\ \A n \in 1..k : consumed[n].b = Data("{hi}")
  /\ consumed[k + 1].b = Data("[DONE]")

\* C12 (step): at most one invocation is entered per step, and while an
\* invocation is running the next one is entered only as the running one
\* returns.
C12_OneAtATime ==
  /\ Len(calls') <= Len(calls) + 1
  /\ (pc = "cb" /\ calls' # calls) => (queued # <<>> /\ queued' = Tail(queued))

\* C12: every chunk the chat session decoded that is no heartbeat is
\* delivered exactly once with done=false and a nil error, carrying the
\* decoded chunk; invocations are made in the order of the lines (the one
\* made after the loop comes last), one at a time; a body of k content lines and the terminator gives k invocations
\* with done=false followed by one with done=true and a nil error.
C12_InOrderOnce ==
  /\ [][C12_OneAtATime]_vars
  /\ [](/\ \A n \in 1..Len(consumed) :
             ChunkLine(n) =>
               /\ Len(NonTerminalOf(n)) = 1
               /\ NonTerminalOf(n)[1].err = "nil"
               /\ [NonTerminalOf(n)[1].response EXCEPT !.ToolCalls = <<>>] = Decoded(n).entry
        /\ \A i, j \in 1..Len(calls) :
             i < j => (calls[i].line # 0 /\ (calls[j].line = 0 \/ calls[i].line <= calls[j].line))
        /\ \A k \in 0..Len(consumed) :
             (ContentThenDone(k) /\ Returned) =>
               calls = [i \in 1..(k + 1) |->
                          IF i <= k THEN Cb(Decoded(i).entry, FALSE, "nil", i)
                                    ELSE Cb(PlaceholderEntry, TRUE, "nil", i)])

\* two content chunks and the terminator were read and the session returned
C12_Witness ==
  /\ ContentThenDone(2)
  /\ Returned
  /\ Len(calls) = 3

(* ------------------------------ C13 ------------------------------------ *)
\* a session task was started for the body
SessionStarted == pc # "idle"

\* C13: the body handed to a session is closed exactly once on every way out
\* of the session function (terminator, finalization, terminal event type,
\* decode failure, cancellation, read error, end of the body without a
\* terminal invocation), the Close happens as the function returns, and the
\* body is never closed while the session still scans lines or runs a
\* callback.
C13_ReleasedOnceOnExit ==
  /\ [][(SessionStarted /\ closed' # closed) =>
          (pc # "closed" /\ pc' = "closed" /\ closed' = closed + 1)]_vars
  /\ [](SessionStarted => (closed = IF Returned THEN 1 ELSE 0))

\* a session read lines, reached the end of the body without making a
\* terminal invocation, and returned with the body closed
C13_Witness ==
  /\ Returned
  /\ closed = 1
  /\ consumed # <<>>
  /\ eos.seen /\ eos.err = "nil"
  /\ calls # <<>>
  /\ TerminalIdx = {}

(* ------------------------------ C14 ------------------------------------ *)
\* C14 (as stated): once an invocation with done=true has been entered, the
\* body is closed, whether or not that invocation has returned.
C14_ReleasedOnceDelivered == TerminalIdx # {} => closed = 1

\* C14 (amended): the body is closed when the terminal invocation returns,
\* not before: while the terminal invocation is running the body is open,
\* the step in which it returns closes the body, and from then on the body
\* is closed.
C14_ReleasedOnceTerminalReturns ==
  /\ [][(pc = "cb" /\ calls[Len(calls)].done /\ pc' # "cb") =>
          (closed = 0 /\ closed' = 1 /\ pc' = "closed")]_vars
  /\ [](TerminalIdx # {} => (closed = IF pc = "cb" THEN 0 ELSE 1))

\* the terminal invocation of a stream has returned and the body is closed
C14_Witness ==
  /\ TerminalIdx # {}
  /\ pc = "closed"
  /\ closed = 1
  /\ consumed # <<>>

(* ------------------------------ C15 ------------------------------------ *)
\* the exchange ended with a non-2xx status: the initiating call closed the
\* body and no session exists
Non2xx == pc = "idle" /\ closed >= 1

\* C15: after a non-2xx status the initiating call has returned a non-nil
\* error, whatever the error body (single-object wrapper, array-of-objects
\* wrapper, empty array, undecodable or unreadable body); no session was
\* started, the callback was not invoked, and the body was closed once.
C15_Non2xxReturnsError ==
  Non2xx =>
    /\ call = "failed"
    /\ calls = <<>>
    /\ consumed = <<>>
    /\ closed = 1

(* ------------------------------ C16 ------------------------------------ *)
\* line n was decoded by the generic session to an event
EventLine(n) ==
  /\ flavor = "responses"
  /\ Live(n)
  /\ IsDataLine(n)
  /\ Payload(n) # StreamDone
  /\ Decoded(n).err = "nil"

\* the session went on after the iteration of line n
WentOn(n) ==
  \/ n < Len(consumed)
  \/ n = Len(consumed) /\ (eos.seen \/ pc = "scan" \/ (pc = "cb" /\ ~stop))

\* C16: in the generic flavor every decoded data line is delivered exactly
\* once, with the decoded event and a nil error, and with done=true exactly
\* when the event's type is response.completed, response.failed or
\* response.cancelled; after done=true the session stops, after done=false
\* it goes on with the next line.
C16_EventDelivery ==
  \A n \in 1..Len(consumed) :
    EventLine(n) =>
      LET event == Decoded(n).entry
          done == event.Type \in {"response.completed", "response.failed", "response.cancelled"}
      IN  /\ CallsOf(n) = <<Cb(event, done, "nil", n)>>
          /\ done => (Ends(n) /\ ~WentOn(n))
          /\ ~done => (WentOn(n) /\ ~Ends(n))

\* a generic session delivered a non-terminal event, went on, delivered a
\* cancelled event with done=true and returned
C16_Witness ==
  /\ flavor = "responses"
  /\ Returned
  /\ Len(consumed) = 2
  /\ EventLine(1) /\ EventLine(2)
  /\ Decoded(1).entry.Type = "response.created"
  /\ Decoded(2).entry.Type = "response.cancelled"
  /\ Len(calls) = 2
  /\ calls[2].done

(* ------------------------------ C17 ------------------------------------ *)
\* the running callback waits for room in the channel
CallbackBlocked == consumer = "chan" /\ pc = "cb" /\ ch = ChanCap

\* C17 (step): an invocation is entered only by a step of the session task,
\* never by a step of the initiating call.
C17_SessionInvokes == calls' # calls => (pc \in {"scan", "cb"} /\ call' = call)

\* C17: after a success status the initiating call can return (nil, nil)
\* whatever the session has or has not read, and the session only exists
\* after the go statement; all invocations are made by the session task; a
\* callback that waits for room in the channel is always released, because
\* the initiating call can still return or the consumer can receive, so
\* every invocation that is entered returns.
C17_NoDeadlock ==
  /\ [][C17_SessionInvokes]_vars
  /\ [](call = "spawned" => ENABLED PostReturn)
  /\ [](SessionStarted => call \in {"spawned", "returned"})
  /\ [](CallbackBlocked => (ENABLED PostReturn \/ ENABLED Drain))
  /\ \A m \in 1..(2 * MaxTestLines + 1) :
       (pc = "cb" /\ Len(calls) = m) ~> (pc # "cb" \/ Len(calls) > m)

\* the initiating call returned, the session made three invocations with
\* the channel of capacity ChanCap, the consumer received them all and the
\* session returned
C17_Witness ==
  /\ consumer = "chan"
  /\ call = "returned"
  /\ pc = "closed"
  /\ Len(calls) >= 3
  /\ ch = 0

(* ------------------------------ C18 ------------------------------------ *)
\* C18 (step): the calls already in the finalized list keep their index,
\* identifier, name and arguments, and a call that is appended carries the
\* index it had while it was in progress.
C18_SnapshotStep ==
  /\ Len(toolCalls') >= Len(toolCalls)
  /\ \A k \in 1..Len(toolCalls) :
       Deref(toolCalls'[k], toolIndex') = Deref(toolCalls[k], toolIndex)
  /\ Len(toolCalls') > Len(toolCalls) =>
       Deref(toolCalls'[Len(toolCalls) + 1], toolIndex').Index = Deref(fn, toolIndex).Index

\* C18: the finalized list is an append-only sequence of snapshots, so the
\* calls delivered at finalization carry the indices of the fragments that
\* built them, also after the cursor has advanced again.
C18_AppendOnlySnapshots == [][C18_SnapshotStep]_vars

(* ------------------------------ C19 ------------------------------------ *)
\* C19: every invocation of a chat session with done=true and a nil error
\* carries at least one choice: on the terminator line exactly one choice,
\* whose message has an empty list of tool calls, and at finalization a first
\* choice whose message has at least one tool call.
C19_TerminalHasChoice ==
  \A i \in TerminalIdx :
    (flavor = "chat" /\ calls[i].err = "nil") =>
      LET r == calls[i].response
          n == calls[i].line
      IN  /\ r.Choices >= 1
          /\ n \in 1..Len(consumed)
          /\ IF HasSuffix(consumed[n].b, StreamDone)
               THEN r.Choices = 1 /\ r.ToolCalls = <<>>
               ELSE Len(r.ToolCalls) >= 1

\* a chat session ended on the terminator after a delivery, and its last
\* invocation carries the placeholder choice
C19_Witness ==
  /\ flavor = "chat"
  /\ Returned
  /\ Len(calls) >= 2
  /\ calls[Len(calls)].done
  /\ calls[Len(calls)].err = "nil"
  /\ calls[Len(calls)].response.Choices = 1
  /\ calls[Len(calls)].response.ToolCalls = <<>>
  /\ consumed[Len(consumed)].b = Data("[DONE]")

(* ------------------------------ C20 ------------------------------------ *)
\* an empty line, a line with the event marker or any other line without
\* the data prefix
SkippedLine(b) == Len(b) = 0 \/ ~HasPrefix(b, StreamData)

\* C20 (step): in both flavors, with no cancellation pending, scanning an
\* empty line, an event: line or any other line without the data prefix
\* makes no invocation, keeps the in-progress call, the cursor and the
\* finalized list, and leaves the session scanning, in the state it was in
\* before the line.
C20_SkipStep ==
  (/\ pc = "scan"
   /\ Len(consumed') = Len(consumed) + 1
   /\ ~consumed'[Len(consumed')].ctxDone
   /\ SkippedLine(consumed'[Len(consumed')].b))
  => /\ calls' = calls
     /\ queued' = <<>>
     /\ pc' = "scan"
     /\ UNCHANGED <<fn, toolIndex, toolCalls, stop, closed, eos, ctxDone>>

\* C20: the step above, and in every state the lines skipped so far have no
\* invocation.
C20_SkippedLines ==
  /\ [][C20_SkipStep]_vars
  /\ [](\A n \in 1..Len(consumed) :
          (Live(n) /\ SkippedLine(consumed[n].b)) => (CallsOf(n) = <<>> /\ ~Ends(n)))

\* a session skipped an empty line, an event: line and a line of other text
\* that ends with the terminator token, and is still scanning
C20_Witness ==
  /\ Len(consumed) = 3
  /\ \A n \in 1..3 : Live(n)
  /\ consumed[1].b = <<>>
  /\ consumed[2].b = <<"event:", "#">>
  /\ consumed[3].b = <<"#", "[DONE]">>
  /\ pc = "scan"
  /\ calls = <<>>
  /\ ~eos.seen

(* ------------------------------ C21 ------------------------------------ *)
\* b is a proper or improper prefix of c
IsPrefix(b, c) == Len(b) <= Len(c) /\ SubSeq(c, 1, Len(b)) = b

\* C21 (step): when the assembler takes a fragment, the in-progress call
\* (the fresh one if the fragment changed the index) changes in at most one
\* of name and arguments: a fragment with a name sets the name and its
\* argument text is dropped; a fragment without a name and with argument
\* text keeps the name and has its text appended; the arguments before the
\* update are a prefix of the arguments after it.
C21_MergeStep ==
  (/\ flavor = "chat"
   /\ pc = "scan"
   /\ Len(consumed') = Len(consumed) + 1
   /\ ~consumed'[Len(consumed')].ctxDone
   /\ LineFrag(consumed'[Len(consumed')].b).n > 0)
  => LET t == LineFrag(consumed'[Len(consumed')].b)
         started == t.Index # NilIndex /\ t.Index # toolIndex
         name == IF started THEN "" ELSE fn.Name
         args == IF started THEN <<>> ELSE fn.Arguments
     IN  /\ fn'.Name = name \/ fn'.Arguments = args
         /\ t.Name # "" => (fn'.Name = t.Name /\ fn'.Arguments = args)
         /\ (t.Name = "" /\ t.Arguments # <<>>) =>
               (fn'.Name = name /\ fn'.Arguments = args \o t.Arguments)
         /\ IsPrefix(args, fn'.Arguments)

C21_NameXorArguments == [][C21_MergeStep]_vars

\* a fragment with the name f and the text x was taken, then a fragment with
\* the text x alone: the call in progress is named f and its arguments hold
\* one x
C21_Witness ==
  /\ Len(consumed) = 2
  /\ Live(1) /\ Live(2)
  /\ consumed[1].b = Data("{f0+x}")
  /\ consumed[2].b = Data("{x}")
  /\ fn.Name = "f"
  /\ fn.Arguments = <<"x">>

(* ------------------------------ C22 ------------------------------------ *)
\* C22 (step): in both flavors, when scanner.Scan() returns false, the
\* session makes one invocation with an empty payload, done=true and the
\* read error if there is one, and none if there is none, and is on its way
\* out.
C22_EndOfBodyStep ==
  (~eos.seen /\ eos'.seen) =>
    /\ TerminalIdx = {}
    /\ queued' = <<>>
    /\ IF eos'.err # "nil"
         THEN /\ calls' = Append(calls, Cb(ZeroEntry, TRUE, eos'.err, 0))
              /\ pc' = "cb" /\ stop'
         ELSE /\ calls' = calls
              /\ pc' = "closed"

\* C22: the step above, and in every state: the invocation made after the
\* loop is the last one, the session makes no invocation after it, and a
\* body that ended without a read error has no invocation after the loop.
C22_ReadErrorOnce ==
  /\ [][C22_EndOfBodyStep]_vars
  /\ [](/\ Len(CallsOf(0)) = IF eos.seen /\ eos.err # "nil" THEN 1 ELSE 0
        /\ \A i \in 1..Len(calls) : calls[i].line = 0 => i = Len(calls)
        /\ eos.seen => (Returned \/ (pc = "cb" /\ stop)))

\* after two deliveries a read of the body failed: the session made one
\* more invocation, with the read error, and returned
C22_Witness ==
  /\ Returned
  /\ eos.seen /\ eos.err = "read"
  /\ Len(calls) = 3
  /\ calls[3] = Cb(ZeroEntry, TRUE, "read", 0)
  /\ ~calls[1].done /\ ~calls[2].done

(* ------------------------------ C23 ------------------------------------ *)
\* a chat session run alone on the first k of the lines cs (each with the
\* state of its context when it was scanned): the invocations in order, and
\* the assembler state
RECURSIVE RunAlone(_, _)
RunAlone(cs, k) ==
  IF k = 0
    THEN [cbs |-> <<>>,
          asm |-> [fn |-> NewToolCall("nil"), toolIndex |-> 0, toolCalls |-> <<>>]]
    ELSE LET p == RunAlone(cs, k - 1)
             r == ChatIteration(cs[k].ctxDone, cs[k].b, k, p.asm)
         IN  [cbs |-> p.cbs \o r.cbs, asm |-> r.asm]

\* all the invocations of a session run alone on cs with the end of body e
AloneCalls(cs, e) ==
  RunAlone(cs, Len(cs)).cbs \o (IF e.seen /\ e.err # "nil"
                                  THEN <<Cb(ZeroEntry, TRUE, e.err, 0)>> ELSE <<>>)

\* C23 (step): a step of one session leaves the in-progress call, the
\* cursor, the finalized list and the invocations of the other as they are.
C23_NoInterference ==
  /\ other' # other => UNCHANGED <<fn, toolIndex, toolCalls, calls, queued, consumed, pc, closed>>
  /\ <<fn, toolIndex, toolCalls, calls, queued, consumed, pc, closed>>' #
       <<fn, toolIndex, toolCalls, calls, queued, consumed, pc, closed>> => other' = other

\* C23: under every interleaving of two chat sessions on different bodies,
\* each session's invocations (made and about to be made) and its assembler
\* state are those of the session run alone on its own lines.
C23_Independent ==
  /\ [][C23_NoInterference]_vars
  /\ [](/\ calls \o queued = AloneCalls(consumed, eos)
        /\ Asm = RunAlone(consumed, Len(consumed)).asm
        /\ other.calls \o other.queued = AloneCalls(other.consumed, other.eos)
        /\ [fn |-> other.fn, toolIndex |-> other.toolIndex, toolCalls |-> other.toolCalls]
             = RunAlone(other.consumed, Len(other.consumed)).asm)

\* two sessions on different bodies have both finalized and returned, one
\* with its cursor advanced and the other not
C23_Witness ==
  /\ pc = "closed" /\ other.pc = "closed"
  /\ consumed = <<[b |-> Data("{g1}"), ctxDone |-> FALSE], [b |-> Data("{tool_calls}"), ctxDone |-> FALSE]>>
  /\ other.consumed = <<[b |-> Data("{f0}"), ctxDone |-> FALSE], [b |-> Data("{tool_calls}"), ctxDone |-> FALSE]>>
  /\ toolIndex = 1 /\ other.toolIndex = 0
  /\ Len(calls) = 3 /\ Len(other.calls) = 3

(* ------------------------------ C24 ------------------------------------ *)
\* C24 (step): in both flavors, a line scanned while cancellation is pending
\* is not classified, whatever it is (terminator, finalizing chunk,
\* malformed JSON, skipped line): the iteration makes one invocation, with
\* an empty payload, done=true and the cancellation error, and the session
\* stops with its assembler state as it was.
C24_PriorityStep ==
  (/\ pc = "scan"
   /\ Len(consumed') = Len(consumed) + 1
   /\ consumed'[Len(consumed')].ctxDone)
  => /\ calls' = Append(calls, Cb(ZeroEntry, TRUE, "ctx", Len(consumed')))
     /\ queued' = <<>>
     /\ pc' = "cb" /\ stop'
     /\ UNCHANGED <<fn, toolIndex, toolCalls>>

\* the invocations that carry the cancellation error
CancelCalls == {i \in 1..Len(calls) : calls[i].err = "ctx"}

\* C24 (as stated): the step above, and every invocation that carries the
\* cancellation error is made by the iteration of a line that was just read,
\* never after the loop.
C24_CancelOnlyAfterLine ==
  /\ [][C24_PriorityStep]_vars
  /\ [](\A i \in CancelCalls : calls[i].line \in 1..Len(consumed))

\* C24 (amended): the step above; an invocation that carries the
\* cancellation error is made either by the iteration of a line scanned
\* while cancellation was pending, or after the loop when the read of the
\* body failed with the context's error while cancellation was pending; a
\* body that ends without a read error gives no invocation after the loop,
\* also while cancellation is pending.
C24_CancelAfterLineOrReadError ==
  /\ [][C24_PriorityStep]_vars
  /\ [](\A i \in CancelCalls :
          \/ calls[i].line \in 1..Len(consumed) /\ consumed[calls[i].line].ctxDone
          \/ calls[i].line = 0 /\ eos.seen /\ eos.err = "ctx" /\ eos.ctxDone)
  /\ []((eos.seen /\ eos.err = "nil") => CallsOf(0) = <<>>)
  /\ [](\A n \in 1..Len(consumed) :
          consumed[n].ctxDone => CallsOf(n) = <<Cb(ZeroEntry, TRUE, "ctx", n)>>)

\* a session delivered a chunk, then scanned the terminator line while
\* cancellation was pending, delivered the cancellation error and returned
C24_Witness ==
  /\ Returned
  /\ Len(consumed) >= 2
  /\ ~consumed[1].ctxDone
  /\ consumed[Len(consumed)].ctxDone
  /\ consumed[Len(consumed)].b = Data("[DONE]")
  /\ Len(calls) >= 2
  /\ calls[Len(calls)] = Cb(ZeroEntry, TRUE, "ctx", Len(consumed))
====
